---------------------------- MODULE Spec2Model ----------------------------
(***************************************************************************)
(* Model of src/src/main.c: a BLE peripheral that streams a synthetic      *)
(* pattern over GATT notifications.  Two execution contexts share the      *)
(* file's static variables: the Bluetooth stack's callback context (the    *)
(* handlers connected, disconnected, mtu_updated, write_cmd_cb and         *)
(* notif_ccc_cb, run one at a time) and the pump thread notify_thread,     *)
(* which calls send_data.  A handler that makes several accesses to the    *)
(* shared variables is a sequence of steps the pump can interleave with.   *)
(***************************************************************************)
EXTENDS Integers, Sequences, FiniteSets

VARIABLES
    \* ---- static variables of main.c
    m_notif_enabled,   \* SubscriptionFlag (line 38)
    m_notif_send,      \* StreamingFlag (line 39)
    m_mtu,             \* current MTU, uint16_t (line 40)
    default_conn,      \* stored connection reference or NULL (line 41)
    test_ready,        \* readiness flag (line 37)
    m_msg_buffer,      \* pattern buffer, BufCap bytes (line 43)
    m_msg_idx_cnt,     \* pattern counter, uint32_t (line 44)
    \* ---- the link layer, as far as the handlers' calls change it
    live,              \* connections established and not yet disconnected
    held,              \* connections the application holds a reference on
    term,              \* connections bt_conn_disconnect was called on
    adv,               \* advertising is running
    \* ---- the Bluetooth callback context
    h_pc,              \* position inside the running handler, or "idle"
    h_conn,            \* disconnected: its conn argument
    h_buf,             \* write_cmd_cb: the bytes written (buf, len)
    h_ret,             \* write_cmd_cb: the value it returns
    \* ---- the pump thread (notify_thread and its call of send_data)
    pc,                \* position of the pump thread
    nt_len,            \* notify_thread: len (size_t)
    sd_len,            \* send_data: len (uint16_t)
    mtu,               \* send_data: mtu
    frag,              \* send_data: offset of frag into data
    frag_len,          \* send_data: frag_len
    remaining_len,     \* send_data: remaining_len
    err,               \* send_data: err
    sent,              \* bt_gatt_notify calls made by the current send_data call
    sd_ret,            \* what the last send_data call returned (0 during a call)
    \* ---- the pattern generator run on its own (continuity of two buffers)
    g_pc, g_in, g_out,
    \* ---- history of the stop commands
    stop_bufs          \* buffers the pump has had in hand since the last event
                       \* that told it to stop; -1 when there was none, or a
                       \* flag has been set again since

progVars == <<m_notif_enabled, m_notif_send, m_mtu, default_conn, test_ready,
              m_msg_buffer, m_msg_idx_cnt>>
linkVars == <<live, held, term, adv>>
hVars    == <<h_pc, h_conn, h_buf, h_ret>>
sdVars   == <<sd_len, mtu, frag, frag_len, remaining_len, err, sent, sd_ret>>
pumpVars == <<pc, nt_len, sd_len, mtu, frag, frag_len, remaining_len, err, sent,
              sd_ret>>
genVars  == <<g_pc, g_in, g_out>>
vars     == <<m_notif_enabled, m_notif_send, m_mtu, default_conn, test_ready,
              m_msg_buffer, m_msg_idx_cnt, live, held, term, adv,
              h_pc, h_conn, h_buf, h_ret,
              pc, nt_len, sd_len, mtu, frag, frag_len, remaining_len, err, sent,
              sd_ret, g_pc, g_in, g_out, stop_bufs>>

-----------------------------------------------------------------------------
(* Program constants *)

MTU_OVERHEAD == 3
\* Kconfig value; main.c only uses it (lines 43, 265, 266)
CONFIG_BT_L2CAP_TX_MTU == 64
\* m_mtu's initializer and the value connected() resets it to
DEFAULT_MTU == 23
ENODEV == 19
\* UINT16_MAX << 1
WRAP_LIMIT == 131070
BT_GATT_CCC_NOTIFY == 1
BT_HCI_ERR_UNKNOWN_CONN_ID == 2

NULL == "NULL"
\* conversion to uint16_t
U16(x) == x % 65536

\* sizeof m_msg_buffer
BufCap == CONFIG_BT_L2CAP_TX_MTU - MTU_OVERHEAD

-----------------------------------------------------------------------------
(* Bounds of the model and the inputs the environment may deliver *)

\* the pump generates no further buffer once the counter has reached this
MaxCnt == 21
\* longest payload handed to send_data when it is run on its own
MaxLen == 150
\* longest buffers of the generator's continuity runs
MaxGen == 3

Conns == {"c1", "c2"}
\* hci_err of a connect event: success, cancelled, failed to be established
HciErrs == {0, BT_HCI_ERR_UNKNOWN_CONN_ID, 62}
\* tx of an MTU-exchange-complete event (any uint16_t): below the ATT
\* minimum, the minimum, the configured maximum and above it
TxSizes == {DEFAULT_MTU - 1, DEFAULT_MTU, CONFIG_BT_L2CAP_TX_MTU,
            CONFIG_BT_L2CAP_TX_MTU + 1}
\* control writes: lengths 0..3, opcode 0x01 or another, value 0x01 or another
CmdBufs == {<<>>, <<1>>, <<1, 1>>, <<1, 0>>, <<1, 2>>, <<2, 1>>, <<1, 1, 0>>}
\* CCC descriptor values: none, notify, indicate, both
CccValues == {0, 1, 2, 3}
\* bt_gatt_notify results: accepted, or refused with -ENOMEM / -ENOTCONN
NotifyResults == {0, -12, -128}
\* results of bt_conn_get_info and bt_le_adv_start: ok or -EINVAL
CallResults == {0, -22}

-----------------------------------------------------------------------------
(* The pattern generator (notify_thread, lines 283-289) *)

\* one pattern byte: (m_msg_idx_cnt >> shift) & 0xFF, shift 9 for an odd
\* counter and 1 for an even one (lines 284-285).  The counter is a uint32_t
\* that is at most WRAP_LIMIT when a buffer starts and a buffer adds fewer
\* than 2^16, so m_msg_idx_cnt++ never overflows and is plain addition here.
PatternByte(cnt) ==
    IF cnt % 2 = 1 THEN (cnt \div 512) % 256 ELSE (cnt \div 2) % 256

\* the bytes the for loop of lines 283-286 emits for len iterations from cnt
PatternBytes(cnt, len) ==
    [i \in 1..len |-> PatternByte(cnt + i - 1)]

\* lines 287-289: the wrap step after a buffer
WrapCounter(cnt) ==
    IF cnt > WRAP_LIMIT THEN cnt % WRAP_LIMIT ELSE cnt

\* m_msg_buffer after the for loop wrote len bytes from cnt; bytes past the
\* array's end do not land in it
FillBuffer(buf, cnt, len) ==
    [i \in 1..BufCap |-> IF i <= len THEN PatternByte(cnt + i - 1) ELSE buf[i]]

\* the counter after one buffer of len bytes and the wrap step
NextCounter(cnt, len) ==
    WrapCounter(cnt + len)

-----------------------------------------------------------------------------
(* Initial state: statics as initialised, main() has run (lines 304-323) *)

Init ==
    /\ m_notif_enabled = FALSE
    /\ m_notif_send = FALSE
    /\ m_mtu = DEFAULT_MTU
    /\ default_conn = NULL
    /\ test_ready = FALSE
    /\ m_msg_buffer = [i \in 1..BufCap |-> 0]
    /\ m_msg_idx_cnt = 0
    /\ live = {}
    /\ held = {}
    /\ term = {}
    /\ adv \in BOOLEAN
    /\ h_pc = "idle"
    /\ h_conn = NULL
    /\ h_buf = <<>>
    /\ h_ret = 0
    /\ pc = "nt_280"
    /\ nt_len = 0
    /\ sd_len = 0
    /\ mtu = 0
    /\ frag = 0
    /\ frag_len = 0
    /\ remaining_len = 0
    /\ err = 0
    /\ sent = <<>>
    /\ sd_ret = 0
    /\ g_pc = "off"
    /\ g_in = [c0 |-> 0, a |-> 0, b |-> 0]
    /\ g_out = <<>>
    /\ stop_bufs = -1

-----------------------------------------------------------------------------
(* Handlers run by the Bluetooth stack, one at a time *)

\* positions of the pump between generating a buffer and the last
\* bt_gatt_notify call for it (lines 290, 114-136)
SdCall == {"sd_114", "sd_119", "sd_121", "sd_126", "sd_128"}

\* the history after a handler wrote new into a flag that held old: a write
\* of false (a disable command, an unsubscription) starts the count, at 1 when
\* the pump has a buffer in hand; a change from false to true ends it
StopBufs(old, new) ==
    IF ~new THEN (IF pc \in SdCall THEN 1 ELSE 0)
    ELSE IF ~old THEN -1
    ELSE stop_bufs

\* mutant of write_cmd_cb: every nonzero value byte enables streaming
write_cmd_cb_nonzero(buf) ==
    /\ h_pc = "idle"
    /\ live # {}
    /\ m_notif_send' = IF Len(buf) >= 2 /\ buf[1] = 1 THEN buf[2] # 0
                       ELSE m_notif_send
    /\ h_buf' = buf
    /\ h_ret' = Len(buf)
    /\ h_pc' = "write_cmd_103"
    /\ UNCHANGED <<m_notif_enabled, m_mtu, default_conn, test_ready,
                   m_msg_buffer, m_msg_idx_cnt>>
    /\ UNCHANGED <<linkVars, h_conn, pumpVars, genVars>>
    /\ stop_bufs' = IF Len(buf) >= 2 /\ buf[1] = 1
                    THEN StopBufs(m_notif_send, buf[2] # 0)
                    ELSE stop_bufs

\* write_cmd_cb (lines 89-102); buf is the written bytes, len = Len(buf)
write_cmd_cb(buf) ==
    /\ h_pc = "idle"
    /\ live # {}
    /\ m_notif_send' = IF Len(buf) >= 2 /\ buf[1] = 1 THEN buf[2] = 1
                       ELSE m_notif_send
    /\ h_buf' = buf
    /\ h_ret' = Len(buf)
    /\ h_pc' = "write_cmd_103"
    /\ UNCHANGED <<m_notif_enabled, m_mtu, default_conn, test_ready,
                   m_msg_buffer, m_msg_idx_cnt>>
    /\ UNCHANGED <<linkVars, h_conn, pumpVars, genVars>>
    /\ stop_bufs' = IF Len(buf) >= 2 /\ buf[1] = 1
                    THEN StopBufs(m_notif_send, buf[2] = 1)
                    ELSE stop_bufs

\* write_cmd_cb, line 103: return len to the stack
write_cmd_return ==
    /\ h_pc = "write_cmd_103"
    /\ h_pc' = "idle"
    /\ h_buf' = <<>>
    /\ h_ret' = 0
    /\ UNCHANGED <<progVars, linkVars, h_conn, pumpVars, genVars>>
    /\ UNCHANGED stop_bufs

\* notif_ccc_cb (lines 106-109); the stack also reports a cleared CCC value
\* when no peer is connected
notif_ccc_cb(value) ==
    /\ h_pc = "idle"
    /\ live # {} \/ value = 0
    /\ m_notif_enabled' = ((value \div BT_GATT_CCC_NOTIFY) % 2 = 1)
    /\ UNCHANGED <<m_notif_send, m_mtu, default_conn, test_ready,
                   m_msg_buffer, m_msg_idx_cnt>>
    /\ UNCHANGED <<linkVars, hVars, pumpVars, genVars>>
    /\ stop_bufs' = StopBufs(m_notif_enabled, m_notif_enabled')

\* connected (lines 142-169): up to and including bt_conn_get_info.  A
\* connect event with hci_err = 0 means the link layer established conn; the
\* one-shot advertiser (BT_LE_ADV_OPT_ONE_TIME, line 180) stops then.
connected(conn, hci_err) ==
    /\ h_pc = "idle"
    /\ conn \notin live
    /\ IF hci_err # 0
       THEN UNCHANGED <<progVars, linkVars, hVars>>
       ELSE /\ live' = live \cup {conn}
            /\ adv' = FALSE
            /\ IF default_conn # NULL
               THEN \* lines 157-161: bt_conn_disconnect(conn, ...)
                    /\ term' = term \cup {conn}
                    /\ UNCHANGED <<progVars, held, hVars>>
               ELSE \* line 163: default_conn = bt_conn_ref(conn)
                    /\ default_conn' = conn
                    /\ held' = held \cup {conn}
                    /\ \E r \in CallResults :
                          h_pc' = IF r # 0 THEN "idle" ELSE "connected_170"
                    /\ UNCHANGED <<m_notif_enabled, m_notif_send, m_mtu,
                                   test_ready, m_msg_buffer, m_msg_idx_cnt,
                                   term, h_conn, h_buf, h_ret>>
    /\ UNCHANGED <<pumpVars, genVars>>
    /\ UNCHANGED stop_bufs

\* connected, line 170: m_mtu = 23
connected_reset_mtu ==
    /\ h_pc = "connected_170"
    /\ m_mtu' = DEFAULT_MTU
    /\ h_pc' = "idle"
    /\ UNCHANGED <<m_notif_enabled, m_notif_send, default_conn, test_ready,
                   m_msg_buffer, m_msg_idx_cnt>>
    /\ UNCHANGED <<linkVars, h_conn, h_buf, h_ret, pumpVars, genVars>>
    /\ UNCHANGED stop_bufs

\* the handler's position after bt_conn_get_info(conn, &info) returned r
\* (lines 207-211): a failure returns from disconnected
AfterConnInfo(r) ==
    IF r # 0 THEN "idle" ELSE "disconnected_214"

\* mutant of disconnected: the handler also stops streaming
disconnected_stop(conn) ==
    /\ h_pc = "idle"
    /\ conn \in live
    /\ live' = live \ {conn}
    /\ term' = term \ {conn}
    /\ test_ready' = FALSE
    /\ m_notif_send' = FALSE
    /\ IF default_conn # NULL
       THEN /\ held' = held \ {default_conn}
            /\ h_pc' = "disconnected_204"
            /\ h_conn' = conn
       ELSE /\ held' = held
            /\ \E r \in CallResults :
                  /\ h_pc' = AfterConnInfo(r)
                  /\ h_conn' = IF r # 0 THEN NULL ELSE conn
    /\ UNCHANGED <<m_notif_enabled, m_mtu, default_conn, m_msg_buffer,
                   m_msg_idx_cnt>>
    /\ UNCHANGED <<adv, h_buf, h_ret, pumpVars, genVars>>
    /\ UNCHANGED stop_bufs

\* disconnected (lines 194-203, and 207-211 when nothing is stored): the
\* link layer has dropped conn; test_ready = false; bt_conn_unref(default_conn)
disconnected(conn) ==
    /\ h_pc = "idle"
    /\ conn \in live
    /\ live' = live \ {conn}
    /\ term' = term \ {conn}
    /\ test_ready' = FALSE
    /\ IF default_conn # NULL
       THEN /\ held' = held \ {default_conn}
            /\ h_pc' = "disconnected_204"
            /\ h_conn' = conn
       ELSE /\ held' = held
            /\ \E r \in CallResults :
                  /\ h_pc' = AfterConnInfo(r)
                  /\ h_conn' = IF r # 0 THEN NULL ELSE conn
    /\ UNCHANGED <<m_notif_enabled, m_notif_send, m_mtu, default_conn,
                   m_msg_buffer, m_msg_idx_cnt>>
    /\ UNCHANGED <<adv, h_buf, h_ret, pumpVars, genVars>>
    /\ UNCHANGED stop_bufs

\* disconnected, lines 204-211: default_conn = NULL, then bt_conn_get_info
disconnected_clear ==
    /\ h_pc = "disconnected_204"
    /\ default_conn' = NULL
    /\ \E r \in CallResults :
          /\ h_pc' = AfterConnInfo(r)
          /\ h_conn' = IF r # 0 THEN NULL ELSE h_conn
    /\ UNCHANGED <<m_notif_enabled, m_notif_send, m_mtu, test_ready,
                   m_msg_buffer, m_msg_idx_cnt>>
    /\ UNCHANGED <<linkVars, h_buf, h_ret, pumpVars, genVars>>
    /\ UNCHANGED stop_bufs

\* adv_start (lines 176-192), called from disconnected at line 214
adv_start ==
    /\ h_pc = "disconnected_214"
    /\ \E r \in CallResults : adv' = IF r = 0 THEN TRUE ELSE adv
    /\ h_pc' = "idle"
    /\ h_conn' = NULL
    /\ UNCHANGED <<progVars, live, held, term, h_buf, h_ret, pumpVars,
                   genVars>>
    /\ UNCHANGED stop_bufs

\* mtu_updated, lines 263-264: m_mtu = tx
mtu_updated(conn, tx) ==
    /\ h_pc = "idle"
    /\ conn \in live
    /\ m_mtu' = tx
    /\ h_pc' = "mtu_updated_265"
    /\ UNCHANGED <<m_notif_enabled, m_notif_send, default_conn, test_ready,
                   m_msg_buffer, m_msg_idx_cnt>>
    /\ UNCHANGED <<linkVars, h_conn, h_buf, h_ret, pumpVars, genVars>>
    /\ UNCHANGED stop_bufs

\* mtu_updated, lines 265-267: the clamp
mtu_updated_clamp ==
    /\ h_pc = "mtu_updated_265"
    /\ m_mtu' = IF m_mtu >= CONFIG_BT_L2CAP_TX_MTU THEN CONFIG_BT_L2CAP_TX_MTU
                ELSE m_mtu
    /\ h_pc' = "idle"
    /\ UNCHANGED <<m_notif_enabled, m_notif_send, default_conn, test_ready,
                   m_msg_buffer, m_msg_idx_cnt>>
    /\ UNCHANGED <<linkVars, h_conn, h_buf, h_ret, pumpVars, genVars>>
    /\ UNCHANGED stop_bufs

-----------------------------------------------------------------------------
(* send_data (lines 112-140), called by the pump thread.  Each step holds *)
(* one access to the shared variables and the private work that follows.  *)

\* the record of one bt_gatt_notify(default_conn, attr, data + off, len)
\* call and the value r it returned
BtGattNotify(off, len, r) ==
    [off |-> off, len |-> len, ret |-> r]

\* mutant of sd_loop_cond: the loop goes on after a refused notification
sd_loop_cond_noerr(e, remaining) ==
    remaining > 0

\* the loop condition of line 127: !err && remaining_len > 0
sd_loop_cond(e, remaining) ==
    e = 0 /\ remaining > 0

\* mutant of sd_check_conn: the NULL check is missing
sd_check_conn_nocheck ==
    /\ pc = "sd_114"
    /\ err' = 0
    /\ pc' = "sd_119"
    /\ UNCHANGED <<progVars, linkVars, hVars, nt_len, sd_len, mtu, frag,
                   frag_len, remaining_len, sent, sd_ret, genVars>>
    /\ UNCHANGED stop_bufs

\* lines 114-117: the NULL check
sd_check_conn ==
    /\ pc = "sd_114"
    /\ IF default_conn = NULL
       THEN /\ sd_ret' = -ENODEV
            /\ pc' = "sd_ret"
            /\ UNCHANGED err
       ELSE /\ err' = 0
            /\ pc' = "sd_119"
            /\ UNCHANGED sd_ret
    /\ UNCHANGED <<progVars, linkVars, hVars, nt_len, sd_len, mtu, frag,
                   frag_len, remaining_len, sent, genVars>>
    /\ UNCHANGED stop_bufs

\* mutant of sd_read_mtu: remaining_len starts at len, the first fragment
\* not taken off
sd_read_mtu_norem ==
    /\ pc = "sd_119"
    /\ mtu' = m_mtu
    /\ IF sd_len <= m_mtu - MTU_OVERHEAD
       THEN /\ pc' = "sd_121"
            /\ UNCHANGED <<frag, frag_len, remaining_len>>
       ELSE /\ frag' = 0
            /\ frag_len' = U16(m_mtu - MTU_OVERHEAD)
            /\ remaining_len' = sd_len
            /\ pc' = "sd_126"
    /\ UNCHANGED <<progVars, linkVars, hVars, nt_len, sd_len, err, sent,
                   sd_ret, genVars>>
    /\ UNCHANGED stop_bufs

\* lines 119-125: read m_mtu once, choose the branch, set up the fragments
sd_read_mtu ==
    /\ pc = "sd_119"
    /\ mtu' = m_mtu
    /\ IF sd_len <= m_mtu - MTU_OVERHEAD
       THEN /\ pc' = "sd_121"
            /\ UNCHANGED <<frag, frag_len, remaining_len>>
       ELSE /\ frag' = 0
            /\ frag_len' = U16(m_mtu - MTU_OVERHEAD)
            /\ remaining_len' = U16(sd_len - U16(m_mtu - MTU_OVERHEAD))
            /\ pc' = "sd_126"
    /\ UNCHANGED <<progVars, linkVars, hVars, nt_len, sd_len, err, sent,
                   sd_ret, genVars>>
    /\ UNCHANGED stop_bufs

\* mutant of sd_notify_whole: the notification is given the usable size
\* instead of len
sd_notify_whole_usable ==
    /\ pc = "sd_121"
    /\ \E r \in NotifyResults :
          /\ sent' = Append(sent, BtGattNotify(0, mtu - MTU_OVERHEAD, r))
          /\ err' = r
          /\ sd_ret' = r
    /\ pc' = "sd_ret"
    /\ UNCHANGED <<progVars, linkVars, hVars, nt_len, sd_len, mtu, frag,
                   frag_len, remaining_len, genVars>>
    /\ UNCHANGED stop_bufs

\* lines 121 and 139: the whole buffer in one notification, return err
sd_notify_whole ==
    /\ pc = "sd_121"
    /\ \E r \in NotifyResults :
          /\ sent' = Append(sent, BtGattNotify(0, sd_len, r))
          /\ err' = r
          /\ sd_ret' = r
    /\ pc' = "sd_ret"
    /\ UNCHANGED <<progVars, linkVars, hVars, nt_len, sd_len, mtu, frag,
                   frag_len, remaining_len, genVars>>
    /\ UNCHANGED stop_bufs

\* line 126: the first fragment; then the loop condition, and line 139 when
\* it is false
sd_notify_first ==
    /\ pc = "sd_126"
    /\ \E r \in NotifyResults :
          /\ sent' = Append(sent, BtGattNotify(frag, frag_len, r))
          /\ err' = r
          /\ IF sd_loop_cond(r, remaining_len)
             THEN pc' = "sd_128" /\ UNCHANGED sd_ret
             ELSE pc' = "sd_ret" /\ sd_ret' = r
    /\ UNCHANGED <<progVars, linkVars, hVars, nt_len, sd_len, mtu, frag,
                   frag_len, remaining_len, genVars>>
    /\ UNCHANGED stop_bufs

\* mutant of sd_loop: the fragment size is taken from the current MTU again
\* in every iteration of the loop
sd_loop_reread ==
    /\ pc = "sd_128"
    /\ frag' = frag + frag_len
    /\ IF remaining_len <= m_mtu - MTU_OVERHEAD
       THEN /\ frag_len' = remaining_len
            /\ remaining_len' = 0
       ELSE /\ frag_len' = U16(m_mtu - MTU_OVERHEAD)
            /\ remaining_len' = U16(remaining_len - frag_len')
    /\ \E r \in NotifyResults :
          /\ sent' = Append(sent, BtGattNotify(frag', frag_len', r))
          /\ err' = r
          /\ IF sd_loop_cond(r, remaining_len')
             THEN pc' = "sd_128" /\ UNCHANGED sd_ret
             ELSE pc' = "sd_ret" /\ sd_ret' = r
    /\ UNCHANGED <<progVars, linkVars, hVars, nt_len, sd_len, mtu, genVars>>
    /\ UNCHANGED stop_bufs

\* lines 128-136: one iteration of the while loop; then the loop condition,
\* and line 139 when it is false
sd_loop ==
    /\ pc = "sd_128"
    /\ frag' = frag + frag_len
    /\ IF remaining_len <= mtu - MTU_OVERHEAD
       THEN /\ frag_len' = remaining_len
            /\ remaining_len' = 0
       ELSE /\ remaining_len' = U16(remaining_len - frag_len)
            /\ UNCHANGED frag_len
    /\ \E r \in NotifyResults :
          /\ sent' = Append(sent, BtGattNotify(frag', frag_len', r))
          /\ err' = r
          /\ IF sd_loop_cond(r, remaining_len')
             THEN pc' = "sd_128" /\ UNCHANGED sd_ret
             ELSE pc' = "sd_ret" /\ sd_ret' = r
    /\ UNCHANGED <<progVars, linkVars, hVars, nt_len, sd_len, mtu, genVars>>
    /\ UNCHANGED stop_bufs

send_data ==
    \/ sd_check_conn
    \/ sd_read_mtu
    \/ sd_notify_whole
    \/ sd_notify_first
    \/ sd_loop

-----------------------------------------------------------------------------
(* The pump thread: notify_thread (lines 276-295) *)

\* line 280, first operand of &&: read m_notif_enabled
nt_check_enabled ==
    /\ pc = "nt_280"
    /\ pc' = IF m_notif_enabled THEN "nt_280_send" ELSE "nt_292"
    /\ UNCHANGED <<progVars, linkVars, hVars, nt_len, sdVars, genVars>>
    /\ UNCHANGED stop_bufs

\* mutant of nt_check_send: StreamingFlag is not looked at
nt_check_send_always ==
    /\ pc = "nt_280_send"
    /\ pc' = "nt_282"
    /\ UNCHANGED <<progVars, linkVars, hVars, nt_len, sdVars, genVars>>
    /\ UNCHANGED stop_bufs

\* line 280, second operand of &&: read m_notif_send
nt_check_send ==
    /\ pc = "nt_280_send"
    /\ pc' = IF m_notif_send THEN "nt_282" ELSE "nt_292"
    /\ UNCHANGED <<progVars, linkVars, hVars, nt_len, sdVars, genVars>>
    /\ UNCHANGED stop_bufs

\* line 292: k_msleep(100), then the next iteration
k_msleep ==
    /\ pc = "nt_292"
    /\ pc' = "nt_280"
    /\ UNCHANGED <<progVars, linkVars, hVars, nt_len, sdVars, genVars>>
    /\ UNCHANGED stop_bufs

\* lines 282-290: len = m_mtu - MTU_OVERHEAD (size_t; every m_mtu this
\* model's environment delivers is above MTU_OVERHEAD), fill the buffer,
\* wrap the counter, call send_data with len converted to uint16_t.  A len
\* above the array's size writes past its end: the thread either goes on
\* (the stray bytes hit nothing the program reads) or faults.
nt_generate ==
    /\ pc = "nt_282"
    /\ m_msg_idx_cnt < MaxCnt
    /\ LET len == m_mtu - MTU_OVERHEAD IN
       \/ /\ nt_len' = len
          /\ m_msg_buffer' = FillBuffer(m_msg_buffer, m_msg_idx_cnt, len)
          /\ m_msg_idx_cnt' = NextCounter(m_msg_idx_cnt, len)
          /\ sd_len' = U16(len)
          /\ sd_ret' = 0
          /\ pc' = "sd_114"
       \/ /\ len > BufCap
          /\ nt_len' = len
          /\ pc' = "fault"
          /\ UNCHANGED <<m_msg_buffer, m_msg_idx_cnt, sd_len, sd_ret>>
    /\ UNCHANGED <<m_notif_enabled, m_notif_send, m_mtu, default_conn,
                   test_ready, mtu, frag, frag_len, remaining_len, err, sent>>
    /\ UNCHANGED <<linkVars, hVars, genVars>>
    /\ stop_bufs' = IF stop_bufs >= 0 /\ pc' = "sd_114" THEN stop_bufs + 1
                    ELSE stop_bufs

\* mutant of nt_next: the pump backs off (sleeps) after a failed send
nt_next_backoff ==
    /\ pc = "sd_ret"
    /\ pc' = IF sd_ret # 0 THEN "nt_292" ELSE "nt_280"
    /\ nt_len' = 0
    /\ sd_len' = 0
    /\ mtu' = 0
    /\ frag' = 0
    /\ frag_len' = 0
    /\ remaining_len' = 0
    /\ err' = 0
    /\ sent' = <<>>
    /\ UNCHANGED <<progVars, linkVars, hVars, sd_ret, genVars>>
    /\ UNCHANGED stop_bufs

\* line 290: send_data has returned, its result is not looked at; the
\* locals of the iteration die and the next iteration starts
nt_next ==
    /\ pc = "sd_ret"
    /\ pc' = "nt_280"
    /\ nt_len' = 0
    /\ sd_len' = 0
    /\ mtu' = 0
    /\ frag' = 0
    /\ frag_len' = 0
    /\ remaining_len' = 0
    /\ err' = 0
    /\ sent' = <<>>
    /\ UNCHANGED <<progVars, linkVars, hVars, sd_ret, genVars>>
    /\ UNCHANGED stop_bufs

notify_thread ==
    \/ nt_check_enabled
    \/ nt_check_send
    \/ k_msleep
    \/ nt_generate
    \/ nt_next
    \/ send_data

-----------------------------------------------------------------------------
(* The whole program *)

\* the events the stack delivers (conn_callbacks lines 252-259, gatt_callbacks
\* lines 270-272, the attribute table lines 53-68)
Handlers ==
    \/ \E c \in Conns, e \in HciErrs : connected(c, e)
    \/ connected_reset_mtu
    \/ \E c \in Conns : disconnected(c)
    \/ disconnected_clear
    \/ adv_start
    \/ \E c \in Conns, tx \in TxSizes : mtu_updated(c, tx)
    \/ mtu_updated_clamp
    \/ \E buf \in CmdBufs : write_cmd_cb(buf)
    \/ write_cmd_return
    \/ \E v \in CccValues : notif_ccc_cb(v)

Next ==
    \/ Handlers
    \/ notify_thread

Spec == Init /\ [][Next]_vars

-----------------------------------------------------------------------------
(* send_data on its own: one call with any MTU in [23, configured maximum] *)
(* and any payload length, with and without a stored connection           *)

InitSend ==
    /\ m_notif_enabled = FALSE
    /\ m_notif_send = FALSE
    /\ m_mtu \in DEFAULT_MTU..CONFIG_BT_L2CAP_TX_MTU
    /\ default_conn \in {NULL, "c1"}
    /\ test_ready = FALSE
    /\ m_msg_buffer = [i \in 1..BufCap |-> 0]
    /\ m_msg_idx_cnt = 0
    /\ live = IF default_conn = NULL THEN {} ELSE {default_conn}
    /\ held = live
    /\ term = {}
    /\ adv = (default_conn = NULL)
    /\ h_pc = "idle"
    /\ h_conn = NULL
    /\ h_buf = <<>>
    /\ h_ret = 0
    /\ pc = "sd_114"
    /\ nt_len = 0
    /\ sd_len \in 0..MaxLen
    /\ mtu = 0
    /\ frag = 0
    /\ frag_len = 0
    /\ remaining_len = 0
    /\ err = 0
    /\ sent = <<>>
    /\ sd_ret = 0
    /\ g_pc = "off"
    /\ g_in = [c0 |-> 0, a |-> 0, b |-> 0]
    /\ g_out = <<>>
    /\ stop_bufs = -1

NextSend == send_data

SpecSend == InitSend /\ [][NextSend]_vars

-----------------------------------------------------------------------------
(* The pattern generator on its own: from a counter value c0 a buffer of  *)
(* length a and then one of length b, as two pump iterations produce them *)
(* (lines 283-289 twice).                                                 *)

\* counter values at a buffer boundary: around 0, around the change of the
\* high byte, and the last ones before the wrap step acts
GenStarts == (0..1) \cup (510..513) \cup ((WRAP_LIMIT - 2 * MaxGen)..WRAP_LIMIT)
                 \cup {WRAP_LIMIT - 10}
\* buffer lengths: the short ones, and the length the pump uses at MTU 23
GenLens == (0..MaxGen) \cup {DEFAULT_MTU - MTU_OVERHEAD}

InitGen ==
    /\ m_notif_enabled = TRUE
    /\ m_notif_send = TRUE
    /\ m_mtu = DEFAULT_MTU
    /\ default_conn = NULL
    /\ test_ready = FALSE
    /\ m_msg_buffer = [i \in 1..BufCap |-> 0]
    /\ m_msg_idx_cnt \in GenStarts
    /\ live = {}
    /\ held = {}
    /\ term = {}
    /\ adv = TRUE
    /\ h_pc = "idle"
    /\ h_conn = NULL
    /\ h_buf = <<>>
    /\ h_ret = 0
    /\ pc = "nt_282"
    /\ nt_len = 0
    /\ sd_len = 0
    /\ mtu = 0
    /\ frag = 0
    /\ frag_len = 0
    /\ remaining_len = 0
    /\ err = 0
    /\ sent = <<>>
    /\ sd_ret = 0
    /\ g_pc = "first"
    /\ \E a \in GenLens, b \in GenLens :
          g_in = [c0 |-> m_msg_idx_cnt, a |-> a, b |-> b]
    /\ g_out = <<>>
    /\ stop_bufs = -1

\* lines 283-289 with len = n: the bytes written are appended to g_out
GenBuffer(n) ==
    /\ m_msg_buffer' = FillBuffer(m_msg_buffer, m_msg_idx_cnt, n)
    /\ m_msg_idx_cnt' = NextCounter(m_msg_idx_cnt, n)
    /\ g_out' = g_out \o [i \in 1..n |-> m_msg_buffer'[i]]

gen_first ==
    /\ g_pc = "first"
    /\ GenBuffer(g_in.a)
    /\ g_pc' = "second"
    /\ UNCHANGED <<m_notif_enabled, m_notif_send, m_mtu, default_conn,
                   test_ready, linkVars, hVars, pumpVars, g_in>>
    /\ UNCHANGED stop_bufs

gen_second ==
    /\ g_pc = "second"
    /\ GenBuffer(g_in.b)
    /\ g_pc' = "done"
    /\ UNCHANGED <<m_notif_enabled, m_notif_send, m_mtu, default_conn,
                   test_ready, linkVars, hVars, pumpVars, g_in>>
    /\ UNCHANGED stop_bufs

NextGen == gen_first \/ gen_second

SpecGen == InitGen /\ [][NextGen]_vars

-----------------------------------------------------------------------------
(* Claims about send_data, checked under SpecSend *)

\* ceil(n / d) for d > 0
CeilDiv(n, d) == (n + d - 1) \div d

\* the call has returned with a connection stored and every notification
\* accepted
SendAccepted ==
    /\ pc = "sd_ret"
    /\ default_conn # NULL
    /\ \A i \in 1..Len(sent) : sent[i].ret = 0

\* the notifications of the call cover the buffer in order: the first starts
\* at offset 0, each starts where the one before ended, none is longer than
\* M - 3, and together they end at L
SendPartition ==
    /\ \A i \in 1..Len(sent) :
          /\ sent[i].len <= m_mtu - MTU_OVERHEAD
          /\ sent[i].off = IF i = 1 THEN 0 ELSE sent[i-1].off + sent[i-1].len
          /\ i > 1 => sent[i].off > sent[i-1].off
    /\ sent # <<>> => sent[Len(sent)].off + sent[Len(sent)].len = sd_len

\* C1 as stated: for every MTU M in [23, configured maximum] and every payload
\* length L, L = 0 included, a send_data call with a connection present and
\* every notification accepted issues exactly ceil(L / (M-3)) notifications
\* that partition the buffer in order.
C1_Original ==
    SendAccepted =>
        /\ Len(sent) = CeilDiv(sd_len, m_mtu - MTU_OVERHEAD)
        /\ SendPartition

\* C1 amended: the same for every L >= 1; for L = 0 the call issues exactly
\* one notification, of length 0 at offset 0.  With M = 64 and L = 150 the
\* fragment lengths are 61, 61, 28.
C1_Fragments ==
    SendAccepted =>
        /\ Len(sent) = IF sd_len = 0 THEN 1
                       ELSE CeilDiv(sd_len, m_mtu - MTU_OVERHEAD)
        /\ SendPartition
        /\ (m_mtu = 64 /\ sd_len = 150) =>
              [i \in 1..Len(sent) |-> sent[i].len] = <<61, 61, 28>>

\* a call with M = 64, L = 150 has returned success after three notifications
C1_Witness ==
    /\ SendAccepted
    /\ m_mtu = 64
    /\ sd_len = 150
    /\ Len(sent) = 3
    /\ sd_ret = 0

\* C2: for every MTU M in [23, configured maximum] and every payload length
\* L with 0 <= L <= M-3, a send_data call with a connection present issues
\* exactly one notification, carrying the whole buffer (offset 0, length L),
\* whether or not the lower layer accepts it.
C2_SingleNotification ==
    (pc = "sd_ret" /\ default_conn # NULL /\ sd_len <= m_mtu - MTU_OVERHEAD) =>
        sent = <<[off |-> 0, len |-> sd_len, ret |-> sd_ret]>>

\* a call with L < M-3 and L > 0 has returned after its one notification
C2_Witness ==
    /\ pc = "sd_ret"
    /\ default_conn # NULL
    /\ sd_len > 0
    /\ sd_len < m_mtu - MTU_OVERHEAD
    /\ Len(sent) = 1

\* C4: when the lower layer refuses fragment k of a send_data call, no
\* notification for a later fragment is issued in that call (a refused
\* notification is always the last one of the call), the call returns that
\* fragment's error code, and no fragment is sent twice (the offsets of the
\* call's notifications are strictly increasing).
C4_AbortOnRefusal ==
    /\ \A i \in 1..Len(sent) :
          /\ i < Len(sent) => sent[i].ret = 0
          /\ i > 1 => sent[i].off > sent[i-1].off
    /\ (pc = "sd_ret" /\ sent # <<>>) => sd_ret = sent[Len(sent)].ret
    /\ (pc # "sd_ret" /\ sent # <<>>) => sent[Len(sent)].ret = 0

\* a call that needs at least three fragments has returned the error of its
\* refused second fragment
C4_Witness ==
    /\ pc = "sd_ret"
    /\ sd_len > 2 * (m_mtu - MTU_OVERHEAD)
    /\ Len(sent) = 2
    /\ sent[2].ret # 0
    /\ sd_ret = sent[2].ret

-----------------------------------------------------------------------------
(* Claims about the pattern generator, checked under SpecGen *)

\* C3, the continuity law: from every counter value the generator can hold at
\* a buffer boundary, a buffer of length a followed by a buffer of length b
\* (each with its wrap step) gives the same bytes, and leaves the same
\* counter, as a single buffer of length a+b, also when the counter wraps
\* between or inside the buffers.
C3_Continuity ==
    g_pc = "done" =>
        /\ g_out = PatternBytes(g_in.c0, g_in.a + g_in.b)
        /\ m_msg_idx_cnt = NextCounter(g_in.c0, g_in.a + g_in.b)

-----------------------------------------------------------------------------
(* Claims about the whole program, checked under Spec *)

\* the step leaves the stored connection, the MTU and the two flags alone
ExistingUnaffected ==
    /\ default_conn' = default_conn
    /\ m_mtu' = m_mtu
    /\ m_notif_enabled' = m_notif_enabled
    /\ m_notif_send' = m_notif_send

\* C5: a successful connect event that arrives while a connection reference
\* is stored has the new connection terminated by the connected handler, and
\* the stored reference, the MTU, StreamingFlag and SubscriptionFlag stay as
\* they are in that step and in every step of the disconnect event the
\* rejection causes (the disconnected handler run for the rejected
\* connection).
C5_RejectionLeavesExisting ==
    [][ /\ \A c \in Conns :
              (default_conn # NULL /\ c \notin live /\ c \in live')
                 => (c \in term' /\ ExistingUnaffected)
        /\ \A c \in term :
              (c \in live /\ c \notin live' /\ c # default_conn)
                 => ExistingUnaffected
        /\ (h_pc = "disconnected_204" /\ h_conn # default_conn)
              => ExistingUnaffected
      ]_vars

\* the disconnected handler is running, or is entered by this step
InDisconnected ==
    \/ h_pc \in {"disconnected_204", "disconnected_214"}
    \/ \E c \in live : c \notin live'

\* C6: every disconnect event is followed, before the disconnected handler
\* returns, by a call of adv_start, for every disconnect reason and every
\* outcome of the handler's connection-info query: the handler returns only
\* from its adv_start call.
C6_AdvRestart ==
    [][ (InDisconnected /\ h_pc' = "idle") => h_pc = "disconnected_214" ]_vars

\* C7: for every control write, write_cmd_cb returns len; StreamingFlag
\* afterwards is (bytes[1] = 0x01) when len >= 2 and bytes[0] = 0x01, and its
\* value before the write in every other case; SubscriptionFlag, the MTU,
\* the connection reference and the pattern counter are not changed.
C7_WriteCmd ==
    [][ (h_pc = "idle" /\ h_pc' = "write_cmd_103") =>
           /\ h_ret' = Len(h_buf')
           /\ m_notif_send' = IF Len(h_buf') >= 2 /\ h_buf'[1] = 1
                              THEN h_buf'[2] = 1
                              ELSE m_notif_send
           /\ UNCHANGED <<m_notif_enabled, m_mtu, default_conn, m_msg_idx_cnt>>
      ]_vars

\* a write of the one byte 0x01 has been handled and streaming is still on
C7_Witness ==
    /\ h_pc = "write_cmd_103"
    /\ h_buf = <<1>>
    /\ h_ret = 1
    /\ m_notif_send

\* C8: in every reachable state, the states inside a running handler
\* included, 23 <= MTU <= configured link maximum, whatever txSize the
\* MTU-exchange-complete events report.
C8_MtuInRange ==
    DEFAULT_MTU <= m_mtu /\ m_mtu <= CONFIG_BT_L2CAP_TX_MTU

\* C9: a send_data call that finds no connection reference stored returns
\* -ENODEV without issuing a notification and without changing the MTU, the
\* flags or the connection reference.
C9_NotConnected ==
    [][ (pc = "sd_114" /\ pc' # pc /\ default_conn = NULL) =>
           /\ pc' = "sd_ret"
           /\ sd_ret' = -ENODEV
           /\ sent = <<>> /\ sent' = <<>>
           /\ UNCHANGED <<m_mtu, m_notif_enabled, m_notif_send, default_conn>>
      ]_vars

\* a send_data call has returned -ENODEV with nothing stored and nothing sent
C9_Witness ==
    /\ pc = "sd_ret"
    /\ sd_ret = -ENODEV
    /\ default_conn = NULL
    /\ sent = <<>>

\* C10: in every iteration the pump goes on to generate a buffer and call
\* send_data exactly when it read SubscriptionFlag and then StreamingFlag as
\* true, and sleeps otherwise; a buffer is generated and send_data entered
\* only from there, notifications are issued only inside send_data; after
\* send_data returns, whatever it returned, the next iteration starts at the
\* flag check at once, and no step of the pump changes either flag.
C10_PumpDecision ==
    [][ /\ (pc = "nt_280" /\ pc' # pc) =>
              pc' = IF m_notif_enabled THEN "nt_280_send" ELSE "nt_292"
        /\ (pc = "nt_280_send" /\ pc' # pc) =>
              pc' = IF m_notif_send THEN "nt_282" ELSE "nt_292"
        /\ (pc = "nt_292" /\ pc' # pc) => pc' = "nt_280"
        /\ (pc = "sd_ret" /\ pc' # pc) => pc' = "nt_280"
        /\ (pc = "nt_282" /\ pc' # pc /\ nt_len' <= BufCap) =>
              (pc' = "sd_114" /\ m_msg_idx_cnt' = NextCounter(m_msg_idx_cnt, nt_len'))
        /\ (m_msg_idx_cnt' # m_msg_idx_cnt \/ m_msg_buffer' # m_msg_buffer
               \/ (pc' = "sd_114" /\ pc # "sd_114")) => pc = "nt_282"
        /\ (sent' # sent /\ sent' # <<>>) => pc \in {"sd_121", "sd_126", "sd_128"}
        /\ pc' # pc => UNCHANGED <<m_notif_enabled, m_notif_send>>
      ]_vars

\* the previous send_data call failed and the pump, having read both flags
\* as true again, is about to generate the next buffer
C10_Witness ==
    /\ pc = "nt_282"
    /\ sd_ret # 0
    /\ m_msg_idx_cnt > 0
    /\ m_msg_idx_cnt < MaxCnt

\* C11: after a disconnect event has been handled and the pump's next
\* send_data call has failed with -ENODEV, the pump idles: while no connection
\* is established it generates no further buffer (the pattern counter stays)
\* and enters send_data no more.
C11_IdleAfterDisconnect ==
    [][ (sd_ret = -ENODEV /\ default_conn = NULL /\ live = {}
            /\ h_pc = "idle" /\ pc \notin {"sd_114", "sd_ret"}) =>
           /\ m_msg_idx_cnt' = m_msg_idx_cnt
           /\ pc' # "sd_114"
      ]_vars

\* C12: a successful connect event handled with no connection stored stores
\* the new connection, and when the connected handler returns the MTU is 23,
\* whatever it was before and whatever bt_conn_get_info returned.
C12_ConnectResetsMtu ==
    [][ ((h_pc = "idle" /\ default_conn = NULL /\ live' # live
             /\ \E c \in Conns : c \notin live /\ c \in live')
         \/ h_pc = "connected_170") =>
           /\ default_conn' # NULL
           /\ default_conn' \in live'
           /\ h_pc' = "idle" => m_mtu' = DEFAULT_MTU
      ]_vars

\* C13: within one send_data call the MTU is read once (into mtu) and every
\* fragment but possibly the last has the length mtu - 3, even when
\* mtu_updated or connected change m_mtu while the call is in progress: mtu
\* does not change between the call's notifications, every notification that
\* is followed by another one has length mtu - 3, and so has the latest one
\* while the loop goes on.
C13_NoMidBurstChange ==
    /\ [](\A i \in 1..Len(sent) :
             (i < Len(sent) \/ pc = "sd_128") => sent[i].len = mtu - MTU_OVERHEAD)
    /\ [][ (pc \in {"sd_121", "sd_126", "sd_128"} /\ pc' # "nt_280")
              => mtu' = mtu ]_vars

\* m_mtu has been changed in the middle of a burst: two fragments are out,
\* more are to come, and the current MTU is no longer the one the call read
C13_Witness ==
    /\ pc = "sd_128"
    /\ Len(sent) >= 2
    /\ m_mtu # mtu
    /\ sent[1].len = mtu - MTU_OVERHEAD

-----------------------------------------------------------------------------
(* Further claims about the pattern generator, checked under SpecGen *)

\* C14: the pattern counter wraps modulo 131072: after every completed buffer
\* generation the counter equals (counter before the buffer + buffer length)
\* mod 131072, and so is below 131072 at every buffer boundary.
C14_WrapModulo ==
    [][ /\ (g_pc = "first" /\ g_pc' = "second") =>
              m_msg_idx_cnt' = (m_msg_idx_cnt + g_in.a) % 131072
        /\ (g_pc = "second" /\ g_pc' = "done") =>
              m_msg_idx_cnt' = (m_msg_idx_cnt + g_in.b) % 131072
        /\ m_msg_idx_cnt' < 131072
      ]_vars

-----------------------------------------------------------------------------
(* Further claims about the whole program, checked under Spec *)

\* C15: each streaming iteration of the pump results in one notification and
\* no fragmentation: the length the pump generated never exceeds the usable
\* size mtu - 3 that send_data reads in the same iteration, and no send_data
\* call of the pump issues a second notification, under every interleaving
\* of the handlers with the pump thread.
C15_NoFragmentation ==
    /\ Len(sent) <= 1
    /\ pc \in {"sd_121", "sd_126", "sd_128"} => sd_len <= mtu - MTU_OVERHEAD

\* C17: the pump never writes outside m_msg_buffer: the length it generates
\* in an iteration is non-negative and at most the buffer's capacity
\* (configured maximum MTU - 3), under every interleaving of the pump with
\* mtu_updated.
C17_WithinBuffer ==
    nt_len >= 0 /\ nt_len <= BufCap

\* C18: every notification send_data issues is issued on a stored, non-null
\* connection reference that has not been released: at every bt_gatt_notify
\* call default_conn is not NULL and the application still holds its
\* reference on it.
C18_NotifyOnHeldConn ==
    [][ (sent' # sent /\ sent' # <<>>) =>
           (default_conn # NULL /\ default_conn \in held)
      ]_vars

\* C19: between handlers, the stored connection reference is non-null exactly
\* when an accepted connection (one that is live and was not rejected by the
\* connected handler) is live, it designates that connection, and at most one
\* accepted connection is live; in particular the disconnect event of a
\* rejected connection leaves the stored reference intact.
C19_StoredIffAcceptedLive ==
    h_pc = "idle" =>
        /\ Cardinality(live \ term) <= 1
        /\ default_conn # NULL <=> live \ term # {}
        /\ default_conn # NULL => default_conn \in live \ term

-----------------------------------------------------------------------------
(* The program with a peer that writes nothing more: c1 is connected, its  *)
(* peer has or has not subscribed and enabled streaming and has negotiated *)
(* the smallest or the largest MTU; from there on only connect and         *)
(* disconnect events arrive while the pump runs (no control write, no CCC  *)
(* write, no MTU exchange).                                                *)

InitInherit ==
    /\ m_notif_enabled \in BOOLEAN
    /\ m_notif_send \in BOOLEAN
    /\ m_mtu \in {DEFAULT_MTU, CONFIG_BT_L2CAP_TX_MTU}
    /\ default_conn = "c1"
    /\ test_ready = FALSE
    /\ m_msg_buffer = [i \in 1..BufCap |-> 0]
    /\ m_msg_idx_cnt = 0
    /\ live = {"c1"}
    /\ held = {"c1"}
    /\ term = {}
    /\ adv = FALSE
    /\ h_pc = "idle"
    /\ h_conn = NULL
    /\ h_buf = <<>>
    /\ h_ret = 0
    /\ pc = "nt_280"
    /\ nt_len = 0
    /\ sd_len = 0
    /\ mtu = 0
    /\ frag = 0
    /\ frag_len = 0
    /\ remaining_len = 0
    /\ err = 0
    /\ sent = <<>>
    /\ sd_ret = 0
    /\ g_pc = "off"
    /\ g_in = [c0 |-> 0, a |-> 0, b |-> 0]
    /\ g_out = <<>>
    /\ stop_bufs = -1

NextInherit ==
    \/ \E c \in Conns, e \in HciErrs : connected(c, e)
    \/ connected_reset_mtu
    \/ \E c \in Conns : disconnected(c)
    \/ disconnected_clear
    \/ adv_start
    \/ notify_thread

SpecInherit == InitInherit /\ [][NextInherit]_vars

\* C16: a disconnect event changes neither StreamingFlag nor SubscriptionFlag
\* nor the pattern counter, and neither does a connect event change a flag;
\* so with no write from any peer the flags keep the values the first peer
\* left, and the pump, once at a bt_gatt_notify call, issues the notification
\* on whatever connection is stored then: a peer connecting after a
\* disconnect is sent pattern data without having written an enable command
\* or a subscription.
C16_FlagsSurviveDisconnect ==
    [][ /\ UNCHANGED <<m_notif_enabled, m_notif_send>>
        /\ (InDisconnected /\ (h_pc' # h_pc \/ live' # live)) =>
              UNCHANGED m_msg_idx_cnt
        /\ (pc = "sd_121" /\ pc' # pc) =>
              (Len(sent') = Len(sent) + 1 /\ sent'[Len(sent')].len = sd_len)
      ]_vars

\* c1 has disconnected, c2 has connected and is the stored connection, and
\* the pump, both flags still true, has generated a buffer for it and is at
\* the bt_gatt_notify call
C16_Witness ==
    /\ pc = "sd_121"
    /\ h_pc = "idle"
    /\ default_conn = "c2"
    /\ live = {"c2"}
    /\ held = {"c2"}
    /\ m_notif_enabled
    /\ m_notif_send
    /\ sd_len > 0

-----------------------------------------------------------------------------
(* Stopping, checked under Spec *)

\* C20: once a control write that disables streaming or a CCC write that
\* unsubscribes has been handled, and as long as no later event sets a flag
\* from false to true, the pump issues the notifications of at most one more
\* buffer (the one it has in hand, or the one of the iteration already past
\* its flag check); after that buffer it does not get past the flag check
\* again: it only reads the flags and sleeps, issues no notification and
\* leaves the pattern counter unchanged.
C20_BoundedStop ==
    /\ [](stop_bufs <= 1 /\ (stop_bufs = 1 => pc # "nt_282"))
    /\ [][ (stop_bufs = 1 /\ stop_bufs' = 1
               /\ pc \in {"nt_280", "nt_280_send", "nt_292"}) =>
              /\ pc' \in {"nt_280", "nt_280_send", "nt_292"}
              /\ m_msg_idx_cnt' = m_msg_idx_cnt
              /\ sent' = <<>>
         ]_vars

\* streaming was stopped by a command while the peer stays subscribed, the
\* pump has issued one more buffer since and is now asleep
C20_Witness ==
    /\ stop_bufs = 1
    /\ pc = "nt_292"
    /\ m_notif_enabled
    /\ ~m_notif_send
    /\ m_msg_idx_cnt > 0
    /\ sd_ret = 0
    /\ h_pc = "idle"

=============================================================================
